---- MODULE Spec2Model ----
(***************************************************************************)
(* Model of the Proforma document controller of proforma_invoice_app:      *)
(* src/proforma_invoice_app/proforma_invoice_app/doctype/proforma/         *)
(* proforma.py and general_functions/general_functions.py.                 *)
(*                                                                         *)
(* The database tables the controller reads and writes are the variables.  *)
(* A remote call is one atomic step: it runs the whole handler on the      *)
(* tables and leaves, in `call`, the arguments it was given and what it    *)
(* returned; `Return` hands the response back before the next call.  The   *)
(* host framework runs a call in one transaction: what a handler wrote is  *)
(* kept when it returns or where it commits, and dropped when it raises.   *)
(*                                                                         *)
(* Quantities are integers (the code's floats, in stock units).            *)
(***************************************************************************)
EXTENDS Integers, Sequences, FiniteSets, TLC

VARIABLES
    selling_settings, \* Selling Settings (single): the flags the module reads
    quotations,       \* tabQuotation: name -> transaction_date, valid_till
    stock_settings,   \* Stock Settings (single): the two reservation flags
    proformas,        \* tabProforma: name -> document fields
    items,            \* tabProforma Item: the rows, a row's name is its index
    packed_items,     \* tabPacked Item: the components of product bundle rows
    linked_docs,      \* <<doctype, name>> -> inter_company_order_reference
    bin,              \* tabBin: <<item_code, warehouse>> -> actual and reserved qty
    sres,             \* tabStock Reservation Entry, in creation order
    purchase_orders,  \* tabPurchase Order, in creation order (committed rows)
    sales_invoices,   \* tabSales Invoice with its items' proforma link
    sessions,         \* the copies of a Proforma that client sessions hold
    call              \* the call being answered: arguments and outcome

vars == <<selling_settings, quotations, stock_settings, proformas, items, packed_items, linked_docs, bin,
          sres, purchase_orders, sales_invoices, sessions, call>>

(***************************************************************************)
(* Bounds of the model.                                                    *)
(***************************************************************************)
\* Longest items_details / selected_items list a client sends.
MaxDetails == 2

\* qty_to_reserve values a client sends (0: the key is absent or zero).
RequestQtys == {0, 1, 2}

Idle == [phase |-> "idle"]

\* Selling Settings as installed: both flags off.
DefaultSellingSettings ==
    [allow_against_multiple_purchase_orders |-> FALSE,
     allow_sales_order_creation_for_expired_quotation |-> FALSE]

(***************************************************************************)
(* Master data the controller only reads.                                  *)
(***************************************************************************)
\* tabItem.is_stock_item
is_stock_item(item_code) == item_code \in {"ITEM-A", "ITEM-B"}

\* is_product_bundle: a Product Bundle exists for the item code.
is_product_bundle(item_code) == item_code = "BUNDLE"

\* tabWarehouse.is_group
is_group(warehouse) == warehouse = "WH-GROUP"

Warehouses == {"WH-1", "WH-GROUP"}

RECURSIVE SumOver(_, _)
\* Sum of f over the finite set D of its arguments.
SumOver(f, D) ==
    IF D = {} THEN 0
    ELSE LET d == CHOOSE x \in D : TRUE IN f[d] + SumOver(f, D \ {d})

Abs(a) == IF a < 0 THEN 0 - a ELSE a
Min(a, b) == IF a <= b THEN a ELSE b
Max(a, b) == IF a >= b THEN a ELSE b

(***************************************************************************)
(* Stock reservation.                                                      *)
(***************************************************************************)
\* An entry that still holds stock: submitted, neither delivered nor cancelled.
sre_is_active(sre) == sre.docstatus = 1 /\ sre.status \notin {"Delivered", "Cancelled"}

\* get_sre_reserved_qty_details_for_voucher: voucher_detail_no -> reserved qty.
get_sre_reserved_qty_details_for_voucher(S, voucher_type, voucher_no) ==
    [n \in DOMAIN items |->
        SumOver([k \in DOMAIN S |->
                    IF /\ sre_is_active(S[k])
                       /\ S[k].voucher_type = voucher_type
                       /\ S[k].voucher_no = voucher_no
                       /\ S[k].voucher_detail_no = n
                    THEN S[k].reserved_qty - S[k].delivered_qty ELSE 0],
                DOMAIN S)]

\* get_unreserved_qty: the quantity of the row not delivered and not reserved.
get_unreserved_qty(item, reserved_qty_details) ==
    item.stock_qty - item.delivered_qty * item.conversion_factor
        - reserved_qty_details[item.name]

\* get_stock_balance: the actual quantity in the bin.
get_stock_balance(item_code, warehouse) ==
    IF <<item_code, warehouse>> \in DOMAIN bin
    THEN bin[<<item_code, warehouse>>].actual_qty ELSE 0

\* get_available_qty_to_reserve: actual qty less what entries already hold.
get_available_qty_to_reserve(S, item_code, warehouse) ==
    LET available_qty == get_stock_balance(item_code, warehouse)
        reserved_qty ==
            SumOver([k \in DOMAIN S |->
                        IF /\ sre_is_active(S[k])
                           /\ S[k].item_code = item_code
                           /\ S[k].warehouse = warehouse
                           /\ S[k].reserved_qty >= S[k].delivered_qty
                        THEN S[k].reserved_qty - S[k].delivered_qty ELSE 0],
                    DOMAIN S)
    IN  IF available_qty # 0 /\ reserved_qty # 0
        THEN available_qty - reserved_qty
        ELSE available_qty

\* validate_stock_reservation_settings without the test on the voucher type.
validate_stock_reservation_settings_flag_only(doctype) ==
    ~stock_settings.enable_stock_reservation

\* validate_stock_reservation_settings: TRUE when it raises.
validate_stock_reservation_settings(doctype) ==
    \/ ~stock_settings.enable_stock_reservation
    \/ doctype \notin {"Proforma"}

\* The rows the loop runs over: the rows named by items_details, each loaded
\* from the table with the caller's warehouse and quantity, or else the
\* Proforma's own rows.
load_so_items(name, items_details, from_voucher_type) ==
    IF items_details # <<>>
    THEN [k \in DOMAIN items_details |->
            LET d == items_details[k]
                so_item == items[d.proforma_item]
            IN  [so_item EXCEPT
                    !.warehouse = d.warehouse,
                    !.has_qty_to_reserve = TRUE,
                    !.qty_to_reserve =
                        IF from_voucher_type \in {"Pick List", "Purchase Receipt"}
                        THEN d.qty_to_reserve
                        ELSE d.qty_to_reserve *
                             (IF d.conversion_factor # 0 THEN d.conversion_factor
                              ELSE IF so_item.conversion_factor # 0
                                   THEN so_item.conversion_factor ELSE 1)]]
    ELSE LET own == {n \in DOMAIN items : items[n].parent = name}
         IN  [k \in 1..Cardinality(own) |->
                items[CHOOSE n \in own : Cardinality({m \in own : m < n}) = k - 1]]

\* The picked-row test left out.
must_reserve_from_pick_list_never(item, from_voucher_type) == FALSE

\* Line 1092: stock of a picked row can be reserved from the Pick List only.
must_reserve_from_pick_list(item, from_voucher_type) ==
    from_voucher_type # "Pick List" /\ item.picked_qty > 0

\* The Reserve Stock test left out.
skip_reserve_stock_unset_never(item) == FALSE

\* Line 1088: Reserve Stock is not checked for the row.
skip_reserve_stock_unset(item) == ~item.reserve_stock

\* Line 1104: the row's item is not a stock item.
skip_non_stock_item(item) == ~is_stock_item(item.item_code)

\* Line 1118: the row's warehouse is a group warehouse.
skip_group_warehouse(item) == is_group(item.warehouse)

\* Line 1160: a caller's quantity that is not positive.
skip_qty_to_reserve(item) == item.has_qty_to_reserve /\ item.qty_to_reserve <= 0

\* The quantity which can be reserved, the caller's quantity ignored.
qty_to_be_reserved_ignoring_request(item, unreserved_qty, available_qty_to_reserve) ==
    Min(unreserved_qty, available_qty_to_reserve)

\* Lines 1157-1170: the quantity which can be reserved.
qty_to_be_reserved(item, unreserved_qty, available_qty_to_reserve) ==
    IF item.has_qty_to_reserve
    THEN Min(Min(unreserved_qty, available_qty_to_reserve), item.qty_to_reserve)
    ELSE Min(unreserved_qty, available_qty_to_reserve)

\* Partial reservations let through whatever the setting.
skip_partial_reservation_never(qty, unreserved_qty) == FALSE

\* Lines 1173-1192: a partial reservation is skipped unless the setting allows it.
skip_partial_reservation(qty, unreserved_qty) ==
    qty < unreserved_qty /\ ~stock_settings.allow_partial_reservation

\* Lines 1194-1238: the entry saved and submitted for a row.
new_sre(S, name, doctype, item, available_qty_to_reserve, qty, from_voucher_type) ==
    [name |-> Len(S) + 1,
     item_code |-> item.item_code,
     warehouse |-> item.warehouse,
     voucher_type |-> doctype,
     voucher_no |-> name,
     voucher_detail_no |-> item.name,
     available_qty |-> available_qty_to_reserve,
     voucher_qty |-> item.stock_qty,
     reserved_qty |-> qty,
     delivered_qty |-> 0,
     docstatus |-> 1,
     status |-> "Reserved"]

\* Lines 1086-1240, one pass of the loop over row k.  st holds what the call
\* has written so far and whether it raised.
reserve_row(item, k, st, ctx) ==
    IF skip_reserve_stock_unset(item) THEN st
    ELSE IF must_reserve_from_pick_list(item, ctx.from_voucher_type)
    THEN [st EXCEPT !.raised = TRUE, !.raised_at = k]
    ELSE IF skip_non_stock_item(item)
    THEN [st EXCEPT !.items[item.name].reserve_stock = FALSE]
    ELSE IF skip_group_warehouse(item) THEN st
    ELSE
      LET unreserved_qty == get_unreserved_qty(item, ctx.reserved_qty_details)
          available_qty_to_reserve ==
              get_available_qty_to_reserve(st.sres, item.item_code, item.warehouse)
          qty == qty_to_be_reserved(item, unreserved_qty, available_qty_to_reserve)
      IN  IF unreserved_qty <= 0 THEN st
          ELSE IF available_qty_to_reserve <= 0 THEN st
          ELSE IF skip_qty_to_reserve(item) THEN st
          ELSE IF skip_partial_reservation(qty, unreserved_qty) THEN st
          ELSE [st EXCEPT
                  !.sres = Append(@, new_sre(@, ctx.name, ctx.doctype, item,
                                             available_qty_to_reserve, qty,
                                             ctx.from_voucher_type)),
                  !.sre_count = @ + 1,
                  !.created = Append(@, k)]

RECURSIVE reserve_rows(_, _, _, _)
\* The loop of lines 1086-1240: it stops at the row that raises.
reserve_rows(rows, k, st, ctx) ==
    IF k > Len(rows) \/ st.raised THEN st
    ELSE reserve_rows(rows, k + 1, reserve_row(rows[k], k, st, ctx), ctx)

\* create_stock_reservation_entries_for_so_items: what the call leaves.
\* action is the document's _action ("submit" inside on_submit).
create_stock_reservation_entries_for_so_items(name, doctype, items_details, from_voucher_type, action) ==
    LET details == get_sre_reserved_qty_details_for_voucher(sres, "Proforma", name)
        st0 == [raised |-> FALSE, raised_at |-> 0, reached_settings |-> TRUE, sres |-> sres,
                items |-> items, sre_count |-> 0, created |-> <<>>,
                reserved_qty_details |-> details]
        ctx == [name |-> name, doctype |-> doctype,
                from_voucher_type |-> from_voucher_type,
                reserved_qty_details |-> details]
    IN  IF /\ from_voucher_type = ""
           /\ action = "submit"
           /\ proformas[name].set_warehouse # ""
           /\ is_group(proformas[name].set_warehouse)
        THEN [st0 EXCEPT !.reached_settings = FALSE]
        ELSE IF validate_stock_reservation_settings(doctype)
        THEN [st0 EXCEPT !.raised = TRUE]
        ELSE reserve_rows(load_so_items(name, items_details, from_voucher_type),
                          1, st0, ctx)

\* The items_details lists a client sends.
DetailRows ==
    [proforma_item : DOMAIN items, warehouse : {"WH-1"},
     qty_to_reserve : RequestQtys, conversion_factor : {0}]
    \cup [proforma_item : DOMAIN items, warehouse : {"WH-GROUP"},
          qty_to_reserve : {0}, conversion_factor : {0}]
    \cup [proforma_item : {1}, warehouse : {"WH-1"},
          qty_to_reserve : {1}, conversion_factor : {2}]

ItemsDetails == UNION {[1..m -> DetailRows] : m \in 0..MaxDetails}

FromVoucherTypes == {"", "Pick List", "Purchase Receipt"}

\* The whitelisted call of create_stock_reservation_entries_for_so_items.
Call_create_stock_reservation_entries ==
    /\ call.phase = "idle"
    /\ \E name \in DOMAIN proformas, items_details \in ItemsDetails,
          from_voucher_type \in FromVoucherTypes,
          doctype \in {"Proforma", "Sales Order"} :
        /\ doctype = "Sales Order" => items_details = <<>>
        /\ LET out == create_stock_reservation_entries_for_so_items(
                          name, doctype, items_details, from_voucher_type, "")
           IN  /\ sres' = IF out.raised THEN sres ELSE out.sres
               /\ items' = IF out.raised THEN items ELSE out.items
               /\ call' = [phase |-> "done",
                           fn |-> "create_stock_reservation_entries_for_so_items",
                           name |-> name, doctype |-> doctype,
                           items_details |-> items_details,
                           from_voucher_type |-> from_voucher_type,
                           raised |-> out.raised,
                           raised_at |-> out.raised_at,
                           reached_settings |-> out.reached_settings,
                           sre_count |-> IF out.raised THEN 0 ELSE out.sre_count,
                           created |-> IF out.raised THEN <<>> ELSE out.created,
                           reserved_qty_details |-> out.reserved_qty_details]
    /\ UNCHANGED <<selling_settings, quotations, stock_settings, proformas, packed_items, linked_docs, bin,
                   purchase_orders, sales_invoices, sessions>>

\* The response is handed back; the next call can start.
Return ==
    /\ call.phase = "done"
    /\ call' = Idle
    /\ UNCHANGED <<selling_settings, quotations, stock_settings, proformas, items, packed_items, linked_docs,
                   bin, sres, purchase_orders, sales_invoices, sessions>>

(***************************************************************************)
(* The tables the reservation calls start from.                            *)
(***************************************************************************)
\* A Proforma Item row as the table holds it.
Row(item_code, warehouse, qty, conversion_factor, delivered_qty, picked_qty, reserve_stock) ==
    [name |-> 0, parent |-> "PF-1", item_code |-> item_code,
     warehouse |-> warehouse, qty |-> qty,
     conversion_factor |-> conversion_factor,
     stock_qty |-> qty * conversion_factor,
     delivered_qty |-> delivered_qty, picked_qty |-> picked_qty,
     reserve_stock |-> reserve_stock, stock_reserved_qty |-> 0,
     delivered_by_supplier |-> FALSE, supplier |-> "", ordered_qty |-> 0,
     has_qty_to_reserve |-> FALSE, qty_to_reserve |-> 0]

\* The item tables the reservation calls are tried on: a row that can be
\* reserved beside a row of each kind the loop treats differently.
ReserveTables ==
    LET plain == Row("ITEM-A", "WH-1", 2, 1, 0, 0, TRUE)
    IN  { <<plain, Row("ITEM-A", "WH-1", 2, 2, 1, 0, TRUE)>>,
          <<plain, Row("ITEM-A", "WH-1", 2, 1, 0, 1, TRUE)>>,
          <<Row("ITEM-A", "WH-1", 2, 1, 0, 0, FALSE), plain>>,
          <<Row("ITEM-A", "WH-GROUP", 2, 1, 0, 0, TRUE), plain>>,
          <<Row("SERVICE", "WH-1", 1, 1, 0, 0, TRUE), plain>>,
          <<Row("SERVICE", "WH-1", 1, 1, 0, 1, TRUE), plain>>,
          <<Row("ITEM-A", "WH-1", 1, 1, 1, 0, TRUE), plain>>,
          <<Row("ITEM-B", "WH-1", 1, 1, 0, 0, TRUE), plain>> }

SubmittedProforma ==
    [docstatus |-> 1, status |-> "To Deliver and Bill", modified |-> 0,
     per_delivered |-> 0, per_billed |-> 0, set_warehouse |-> "",
     reserve_stock |-> FALSE, inter_company_order_reference |-> ""]

InitReserve ==
    /\ stock_settings \in
          { [enable_stock_reservation |-> TRUE, allow_partial_reservation |-> TRUE],
            [enable_stock_reservation |-> TRUE, allow_partial_reservation |-> FALSE],
            [enable_stock_reservation |-> FALSE, allow_partial_reservation |-> FALSE] }
    /\ proformas = [n \in {"PF-1"} |-> SubmittedProforma]
    /\ \E t \in ReserveTables :
          items = [n \in DOMAIN t |-> [t[n] EXCEPT !.name = n]]
    /\ bin = [b \in {<<"ITEM-A", "WH-1">>, <<"ITEM-B", "WH-1">>} |->
                [actual_qty |-> IF b[1] = "ITEM-A" THEN 3 ELSE 0,
                 reserved_qty |-> 0]]
    /\ packed_items = <<>>
    /\ linked_docs = <<>>
    /\ sres = <<>>
    /\ purchase_orders = <<>>
    /\ sales_invoices = <<>>
    /\ sessions = <<>>
    /\ selling_settings = DefaultSellingSettings
    /\ quotations = <<>>
    /\ call = Idle

NextReserve ==
    \/ Call_create_stock_reservation_entries
    \/ Return

SpecReserve == InitReserve /\ [][NextReserve]_vars

(***************************************************************************)
(* Claims about stock reservation (SpecReserve).                           *)
(***************************************************************************)
ReserveDone ==
    /\ call.phase = "done"
    /\ call.fn = "create_stock_reservation_entries_for_so_items"

\* The rows the answered call ran over, and the entries it found and made.
ReserveRowsOfCall ==
    load_so_items(call.name, call.items_details, call.from_voucher_type)

SresBeforeCall == SubSeq(sres, 1, Len(sres) - call.sre_count)

CreatedSre(j) == sres[Len(sres) - call.sre_count + j]

CreatedFor(j) == ReserveRowsOfCall[call.created[j]]

\* Unreserved quantity of a row as the claims define it, from the quantity
\* reserved for the row when the call read it.
UnreservedOf(item) ==
    item.stock_qty - item.delivered_qty * item.conversion_factor
        - call.reserved_qty_details[item.name]

\* What was available for entry sre when it was made.
AvailableFor(sre) ==
    get_available_qty_to_reserve(SubSeq(sres, 1, sre.name - 1),
                                 sre.item_code, sre.warehouse)

\* C2: every Stock Reservation Entry the call created has reserved_qty > 0
\* and reserved_qty <= min(unreserved qty of its row, available qty to
\* reserve for its item and warehouse, the caller's qty_to_reserve when the
\* caller gave one).
C2_ReservedQtyWithinLimits ==
    ReserveDone =>
        \A j \in 1..call.sre_count :
            LET sre == CreatedSre(j)
                item == CreatedFor(j)
            IN  /\ sre.voucher_detail_no = item.name
                /\ sre.reserved_qty > 0
                /\ sre.reserved_qty <= UnreservedOf(item)
                /\ sre.reserved_qty <= AvailableFor(sre)
                /\ item.has_qty_to_reserve => sre.reserved_qty <= item.qty_to_reserve

\* C2 witness: a call with a requested quantity below the row's unreserved
\* quantity created an entry.
C2_Witness ==
    /\ ReserveDone
    /\ call.sre_count >= 1
    /\ \E j \in 1..call.sre_count :
          /\ CreatedFor(j).has_qty_to_reserve
          /\ CreatedSre(j).reserved_qty = CreatedFor(j).qty_to_reserve
          /\ CreatedSre(j).reserved_qty < UnreservedOf(CreatedFor(j))

\* C3: when enable_stock_reservation is off or the voucher is not a Proforma,
\* a call that reaches validate_stock_reservation_settings raises and creates
\* no Stock Reservation Entry.
C3_SettingsGuardRaises ==
    [][ ( /\ call'.phase = "done"
          /\ call'.fn = "create_stock_reservation_entries_for_so_items"
          /\ call'.reached_settings
          /\ \/ ~stock_settings.enable_stock_reservation
             \/ call'.doctype # "Proforma" )
        => (call'.raised /\ sres' = sres /\ items' = items) ]_vars

\* C3 witness: a call on a Sales Order was refused although reservation is on.
C3_Witness ==
    /\ ReserveDone
    /\ call.reached_settings
    /\ call.doctype # "Proforma"
    /\ stock_settings.enable_stock_reservation
    /\ call.raised

\* C4: with allow_partial_reservation off, every entry the call created
\* reserves the row's full unreserved quantity.
C4_NoPartialReservation ==
    (ReserveDone /\ ~stock_settings.allow_partial_reservation) =>
        \A j \in 1..call.sre_count :
            CreatedSre(j).reserved_qty = UnreservedOf(CreatedFor(j))

\* C4 witness: partial reservation is off, the caller asked for less than one
\* row's unreserved quantity and that row got no entry, while another row was
\* reserved in full.
C4_Witness ==
    /\ ReserveDone
    /\ ~stock_settings.allow_partial_reservation
    /\ call.sre_count >= 1
    /\ \E k \in DOMAIN ReserveRowsOfCall :
          LET item == ReserveRowsOfCall[k]
          IN  /\ item.has_qty_to_reserve
              /\ item.reserve_stock
              /\ item.qty_to_reserve > 0
              /\ item.qty_to_reserve < UnreservedOf(item)
              /\ \A j \in 1..call.sre_count : call.created[j] # k

\* The row is of a kind the loop passes over: Reserve Stock unset, a
\* non-stock item, a group warehouse, nothing left unreserved or nothing
\* available to reserve when the call started.
PassedOver(item) ==
    \/ ~item.reserve_stock
    \/ ~is_stock_item(item.item_code)
    \/ is_group(item.warehouse)
    \/ UnreservedOf(item) <= 0
    \/ get_available_qty_to_reserve(SresBeforeCall, item.item_code,
                                    item.warehouse) <= 0

RowCreated(k) == \E j \in 1..call.sre_count : call.created[j] = k

\* The row is one whose stock can be reserved from the Pick List only.
PickedRow(item, from_voucher_type) ==
    item.reserve_stock /\ item.picked_qty > 0 /\ from_voucher_type # "Pick List"

\* C5 as stated: a row that is passed over gets no entry and does not make
\* the call raise.
C5_PassedOverNeverRaises ==
    ReserveDone =>
        \A k \in DOMAIN ReserveRowsOfCall :
            PassedOver(ReserveRowsOfCall[k]) =>
                (~RowCreated(k) /\ call.raised_at # k)

\* C5 amended: a row that is passed over gets no entry; it makes the call
\* raise only when it has Reserve Stock set and a picked quantity and the call
\* does not come from the Pick List; and in a call that does not raise, the
\* first row that is not passed over is still reserved when its requested
\* quantity is positive and partial reservation is allowed.
C5_PassedOverUnlessPicked ==
    ReserveDone =>
        LET rows == ReserveRowsOfCall
        IN  /\ \A k \in DOMAIN rows :
                PassedOver(rows[k]) =>
                    /\ ~RowCreated(k)
                    /\ call.raised_at = k =>
                          PickedRow(rows[k], call.from_voucher_type)
            /\ \A k \in DOMAIN rows :
                ( /\ ~call.raised
                  /\ call.reached_settings
                  /\ stock_settings.allow_partial_reservation
                  /\ ~PassedOver(rows[k])
                  /\ \A m \in 1..(k - 1) : PassedOver(rows[m])
                  /\ rows[k].has_qty_to_reserve => rows[k].qty_to_reserve > 0 )
                => RowCreated(k)

\* C5 witness: the call passed over its first row without raising and
\* created an entry for a later row.
C5_Witness ==
    /\ ReserveDone
    /\ ~call.raised
    /\ Len(ReserveRowsOfCall) >= 2
    /\ PassedOver(ReserveRowsOfCall[1])
    /\ ReserveRowsOfCall[1].reserve_stock
    /\ RowCreated(2)

\* C6: when the call reaches a row with Reserve Stock set and picked_qty > 0
\* and does not come from the Pick List, it raises and leaves no Stock
\* Reservation Entry, none for the rows before the picked row either.
C6_PickedRowRaises ==
    [][ ( /\ call'.phase = "done"
          /\ call'.fn = "create_stock_reservation_entries_for_so_items"
          /\ call'.reached_settings
          /\ stock_settings.enable_stock_reservation
          /\ call'.doctype = "Proforma"
          /\ \E k \in DOMAIN load_so_items(call'.name, call'.items_details,
                                           call'.from_voucher_type) :
                PickedRow(load_so_items(call'.name, call'.items_details,
                                        call'.from_voucher_type)[k],
                          call'.from_voucher_type) )
        => (call'.raised /\ sres' = sres /\ items' = items) ]_vars

\* C6 witness: the call raised at its second row, after a first row that had
\* stock to reserve.
C6_Witness ==
    /\ ReserveDone
    /\ call.raised
    /\ call.raised_at = 2
    /\ ~PassedOver(ReserveRowsOfCall[1])
    /\ ReserveRowsOfCall[1].picked_qty = 0
    /\ stock_settings.allow_partial_reservation
    /\ call.from_voucher_type = "Purchase Receipt"

(***************************************************************************)
(* create_pick_list.  A quantity the mapper computes by division is kept   *)
(* as the fraction <<numerator, denominator>>.                             *)
(***************************************************************************)
\* The rows of a Proforma, in table order.
items_of(name) == SelectSeq(items, LAMBDA r : r.parent = name)

\* validate_proforma: TRUE when it raises, the Proforma has reserved stock.
validate_proforma(source_name) ==
    \E n \in DOMAIN items :
        items[n].parent = source_name /\ items[n].stock_reserved_qty > 0

\* should_pick_order_item: the mapper's condition on a Proforma Item.
should_pick_order_item(item) ==
    /\ Abs(item.delivered_qty) < Abs(item.qty)
    /\ ~item.delivered_by_supplier
    /\ ~is_product_bundle(item.item_code)

\* update_item_quantity with the delivered quantity forgotten.
update_item_quantity_less_picked_only(source) ==
    LET den == IF source.conversion_factor # 0 THEN source.conversion_factor ELSE 1
        num == source.qty * den - source.picked_qty
    IN  [qty |-> <<num, den>>,
         stock_qty |-> <<num * source.conversion_factor, den>>]

\* update_item_quantity: qty and stock_qty of the Pick List Item.
update_item_quantity(source) ==
    LET den == IF source.conversion_factor # 0 THEN source.conversion_factor ELSE 1
        num == source.qty * den - Max(source.picked_qty, source.delivered_qty * den)
    IN  [qty |-> <<num, den>>,
         stock_qty |-> <<num * source.conversion_factor, den>>]

\* update_packed_item_qty: the component's qty times the pending share of
\* the bundle row it belongs to.
update_packed_item_qty(source, parent_items) ==
    LET owners == {n \in DOMAIN parent_items :
                      parent_items[n].name = source.parent_detail_docname}
    IN  IF owners = {} THEN [qty |-> <<source.qty, 1>>, stock_qty |-> <<source.qty, 1>>]
        ELSE LET item == parent_items[CHOOSE n \in owners : \A m \in owners : n <= m]
                 den == IF item.conversion_factor # 0 THEN item.conversion_factor ELSE 1
                 num == source.qty *
                        (item.qty * den - Max(item.picked_qty, item.delivered_qty * den))
             IN  [qty |-> <<num, den * item.qty>>,
                  stock_qty |-> <<num, den * item.qty>>]

\* create_pick_list: the Pick List it returns, or that it raised.
create_pick_list(source_name) ==
    IF validate_proforma(source_name)
    THEN [raised |-> TRUE, doc |-> <<>>]
    ELSE IF proformas[source_name].docstatus # 1
    THEN [raised |-> TRUE, doc |-> <<>>]
    ELSE
      LET rows == items_of(source_name)
          picked == SelectSeq(rows, should_pick_order_item)
          packed == SelectSeq(packed_items, LAMBDA r : r.parent = source_name)
          from_items ==
              [k \in DOMAIN picked |->
                  [source |-> "Proforma Item", proforma |-> source_name,
                   proforma_item |-> picked[k].name,
                   item_code |-> picked[k].item_code,
                   qty |-> update_item_quantity(picked[k]).qty,
                   stock_qty |-> update_item_quantity(picked[k]).stock_qty]]
          from_packed ==
              [k \in DOMAIN packed |->
                  [source |-> "Packed Item", proforma |-> source_name,
                   proforma_item |-> packed[k].name,
                   item_code |-> packed[k].item_code,
                   qty |-> update_packed_item_qty(packed[k], rows).qty,
                   stock_qty |-> update_packed_item_qty(packed[k], rows).stock_qty]]
      IN  [raised |-> FALSE,
           doc |-> [purpose |-> "Delivery",
                    parent_warehouse |-> proformas[source_name].set_warehouse,
                    locations |-> from_items \o from_packed]]

\* The whitelisted call of create_pick_list; it writes nothing.
Call_create_pick_list ==
    /\ call.phase = "idle"
    /\ \E source_name \in DOMAIN proformas :
          LET out == create_pick_list(source_name)
          IN  call' = [phase |-> "done", fn |-> "create_pick_list",
                       name |-> source_name, raised |-> out.raised,
                       doc |-> out.doc]
    /\ UNCHANGED <<selling_settings, quotations, stock_settings, proformas, items, packed_items, linked_docs,
                   bin, sres, purchase_orders, sales_invoices, sessions>>

\* The rows create_pick_list is tried on.
PickRows ==
    { [Row(code, "WH-1", 2, cf, delivered, picked, FALSE) EXCEPT
          !.stock_reserved_qty = reserved, !.delivered_by_supplier = dbs] :
      code \in {"ITEM-A", "BUNDLE"}, cf \in {1, 2}, delivered \in {0, 1, 2},
      picked \in {0, 1, 3}, reserved \in {0, 1}, dbs \in BOOLEAN }

PickSecondRows ==
    { Row("ITEM-A", "WH-1", 1, 1, 0, 0, FALSE),
      Row("ITEM-A", "WH-1", 1, 1, 1, 0, FALSE),
      [Row("ITEM-A", "WH-1", 1, 1, 0, 0, FALSE) EXCEPT !.stock_reserved_qty = 1] }

\* The packed rows of the bundle rows of a table: two components a bundle.
PackedOf(table) ==
    LET bundles == SelectSeq(table, LAMBDA r : is_product_bundle(r.item_code))
    IN  [k \in DOMAIN bundles |->
            [name |-> k, parent |-> bundles[k].parent,
             parent_detail_docname |-> bundles[k].name,
             parent_item |-> bundles[k].item_code,
             item_code |-> "ITEM-A", warehouse |-> bundles[k].warehouse,
             qty |-> 2 * bundles[k].qty]]

InitPick ==
    /\ stock_settings = [enable_stock_reservation |-> TRUE,
                         allow_partial_reservation |-> TRUE]
    /\ \E docstatus \in {0, 1} :
          proformas = [n \in {"PF-1"} |->
                          [SubmittedProforma EXCEPT
                              !.docstatus = docstatus,
                              !.status = IF docstatus = 0 THEN "Draft" ELSE @]]
    /\ \E r1 \in PickRows, r2 \in PickSecondRows :
          /\ items = <<[r1 EXCEPT !.name = 1], [r2 EXCEPT !.name = 2]>>
          /\ packed_items = PackedOf(<<[r1 EXCEPT !.name = 1], [r2 EXCEPT !.name = 2]>>)
    /\ linked_docs = <<>>
    /\ bin = <<>>
    /\ sres = <<>>
    /\ purchase_orders = <<>>
    /\ sales_invoices = <<>>
    /\ sessions = <<>>
    /\ selling_settings = DefaultSellingSettings
    /\ quotations = <<>>
    /\ call = Idle

NextPick ==
    \/ Call_create_pick_list
    \/ Return

SpecPick == InitPick /\ [][NextPick]_vars

(***************************************************************************)
(* Claims about create_pick_list (SpecPick).                               *)
(***************************************************************************)
PickDone == call.phase = "done" /\ call.fn = "create_pick_list"

HasReservedStock(name) ==
    \E n \in DOMAIN items : items[n].parent = name /\ items[n].stock_reserved_qty > 0

MaxPurchaseOrders == 2

\* The elements of a sequence that pass a test, duplicates dropped, in order
\* of first appearance (list(dict.fromkeys(...))).
RECURSIVE dedup(_)
dedup(seq) ==
    IF seq = <<>> THEN <<>>
    ELSE LET front == dedup(SubSeq(seq, 1, Len(seq) - 1))
             last == seq[Len(seq)]
         IN  IF \E k \in DOMAIN front : front[k] = last THEN front
             ELSE Append(front, last)

\* suppliers: the suppliers named by the selected items.
suppliers_of(selected_items) ==
    LET named == SelectSeq(selected_items, LAMBDA it : it.supplier # "")
    IN  dedup([k \in DOMAIN named |-> named[k].supplier])

\* items_to_map: the item codes named by the selected items.
items_to_map_of(selected_items) ==
    {selected_items[k].item_code : k \in DOMAIN selected_items} \ {""}

\* update_item: qty and stock_qty of the Purchase Order Item; qty is the
\* fraction <<numerator, denominator>>.
update_item(source) ==
    [qty |-> <<source.qty * source.conversion_factor - source.ordered_qty,
               source.conversion_factor>>,
     stock_qty |-> source.stock_qty - source.ordered_qty]

\* The mapper's condition without the test on the ordered quantity.
po_item_condition_any_qty(doc, supplier, items_to_map) ==
    doc.supplier = supplier /\ doc.item_code \in items_to_map

\* The mapper's condition on a Proforma Item for one supplier.
po_item_condition(doc, supplier, items_to_map) ==
    /\ doc.ordered_qty < doc.stock_qty
    /\ doc.supplier = supplier
    /\ doc.item_code \in items_to_map

\* get_mapped_doc for one supplier: the Purchase Order before insert.
map_purchase_order(source_name, supplier, items_to_map) ==
    LET rows == SelectSeq(items_of(source_name),
                          LAMBDA r : po_item_condition(r, supplier, items_to_map))
    IN  [supplier |-> supplier, docstatus |-> 0,
         items |-> [k \in DOMAIN rows |->
                      [proforma |-> source_name, proforma_item |-> rows[k].name,
                       item_code |-> rows[k].item_code,
                       conversion_factor |-> rows[k].conversion_factor,
                       qty |-> update_item(rows[k]).qty,
                       stock_qty |-> update_item(rows[k]).stock_qty]]]

\* doc.insert(): TRUE when it raises; a Purchase Order needs a row in items.
insert_raises(doc) == doc.items = <<>>

\* The loop over the suppliers from supplier k on: each Purchase Order is
\* inserted and committed before the next supplier is mapped.
RECURSIVE map_suppliers(_, _, _, _, _)
map_suppliers(source_name, suppliers, items_to_map, k, st) ==
    IF k > Len(suppliers) THEN st
    ELSE IF proformas[source_name].docstatus # 1
    THEN [st EXCEPT !.raised = TRUE]
    ELSE LET doc == map_purchase_order(source_name, suppliers[k], items_to_map)
         IN  IF insert_raises(doc)
             THEN [st EXCEPT !.raised = TRUE]
             ELSE map_suppliers(source_name, suppliers, items_to_map, k + 1,
                    [st EXCEPT
                        !.committed = Append(@,
                            doc @@ [name |-> Len(st.committed) + 1])])

make_purchase_order_for_default_supplier(source_name, selected_items) ==
    IF selected_items = <<>>
    THEN [raised |-> FALSE, returned |-> "None", committed |-> purchase_orders]
    ELSE IF suppliers_of(selected_items) = <<>>
    THEN [raised |-> TRUE, returned |-> "", committed |-> purchase_orders]
    ELSE map_suppliers(source_name, suppliers_of(selected_items),
                       items_to_map_of(selected_items), 1,
                       [raised |-> FALSE, returned |-> "purchase_orders",
                        committed |-> purchase_orders])

SelectedItem == [item_code : {"ITEM-A", "ITEM-B"}, supplier : {"", "SUP-1", "SUP-2"}]
                    \cup {[item_code |-> "", supplier |-> "SUP-1"]}

SelectedItems == UNION {[1..m -> SelectedItem] : m \in 0..MaxDetails}

\* The whitelisted call.  What was committed before a raise stays; nothing
\* else is written.
Call_make_purchase_order_for_default_supplier ==
    /\ call.phase = "idle"
    /\ \E source_name \in DOMAIN proformas, selected_items \in SelectedItems :
          LET out == make_purchase_order_for_default_supplier(source_name, selected_items)
          IN  /\ Len(purchase_orders) + Len(suppliers_of(selected_items))
                    <= MaxPurchaseOrders
              /\ purchase_orders' = out.committed
              /\ call' = [phase |-> "done",
                          fn |-> "make_purchase_order_for_default_supplier",
                          name |-> source_name, selected_items |-> selected_items,
                          raised |-> out.raised,
                          returned |-> IF out.raised THEN "" ELSE out.returned,
                          first_new |-> Len(purchase_orders) + 1]
    /\ UNCHANGED <<selling_settings, quotations, stock_settings, proformas, items, packed_items, linked_docs,
                   bin, sres, sales_invoices, sessions>>

\* The tables make_purchase_order_for_default_supplier is tried on.
POFirstRows ==
    { [Row("ITEM-A", "WH-1", 2, 1, 0, 0, FALSE) EXCEPT !.supplier = "SUP-1"],
      [Row("ITEM-A", "WH-1", 2, 1, 0, 0, FALSE) EXCEPT
          !.supplier = "SUP-1", !.ordered_qty = 2],
      [Row("ITEM-A", "WH-1", 1, 2, 0, 0, FALSE) EXCEPT
          !.supplier = "SUP-1", !.ordered_qty = 1] }

POSecondRows ==
    { [Row("ITEM-B", "WH-1", 1, 1, 0, 0, FALSE) EXCEPT !.supplier = "SUP-2"],
      [Row("ITEM-B", "WH-1", 1, 1, 0, 0, FALSE) EXCEPT !.supplier = "SUP-1"],
      Row("ITEM-B", "WH-1", 1, 1, 0, 0, FALSE) }

InitPO ==
    /\ stock_settings = [enable_stock_reservation |-> TRUE,
                         allow_partial_reservation |-> TRUE]
    /\ \E docstatus \in {0, 1} :
          proformas = [n \in {"PF-1"} |->
                          [SubmittedProforma EXCEPT
                              !.docstatus = docstatus,
                              !.status = IF docstatus = 0 THEN "Draft" ELSE @]]
    /\ \E r1 \in POFirstRows, r2 \in POSecondRows :
          items = <<[r1 EXCEPT !.name = 1], [r2 EXCEPT !.name = 2]>>
    /\ packed_items = <<>>
    /\ linked_docs = <<>>
    /\ bin = <<>>
    /\ sres = <<>>
    /\ purchase_orders = <<>>
    /\ sales_invoices = <<>>
    /\ sessions = <<>>
    /\ selling_settings = DefaultSellingSettings
    /\ quotations = <<>>
    /\ call = Idle

NextPO ==
    \/ Call_make_purchase_order_for_default_supplier
    \/ Return

SpecPO == InitPO /\ [][NextPO]_vars

(***************************************************************************)
(* Claims about make_purchase_order_for_default_supplier (SpecPO).         *)
(***************************************************************************)
\* C1: all writes of a call happen in the one request transaction and the
\* module never commits, so a call of
\* make_purchase_order_for_default_supplier that raises leaves no Purchase
\* Order behind: the Purchase Orders of all suppliers persist, or none.
C1_PurchaseOrdersAllOrNone ==
    [][(/\ call'.phase = "done"
        /\ call'.fn = "make_purchase_order_for_default_supplier"
        /\ call'.raised)
          => purchase_orders' = purchase_orders]_vars

POStep ==
    /\ call'.phase = "done"
    /\ call'.fn = "make_purchase_order_for_default_supplier"

\* Where a supplier is first named in the selected items.
FirstNamed(selected_items, supplier) ==
    CHOOSE k \in DOMAIN selected_items :
        /\ selected_items[k].supplier = supplier
        /\ \A j \in 1..(k - 1) : selected_items[j].supplier # supplier

MaxModified == 3

Sessions == {"s1", "s2"}

\* set_status of the controller, on the status map of a Sales Order: the
\* status the document gets; status is the one asked for, "" for none.
set_status(doc, status) ==
    LET asked == IF status # "" THEN status ELSE doc.status
    IN  IF asked = "On Hold" THEN "On Hold"
        ELSE IF asked = "Closed" /\ doc.docstatus # 0 THEN "Closed"
        ELSE IF doc.docstatus = 2 THEN "Cancelled"
        ELSE IF doc.docstatus = 1 /\ doc.per_delivered >= 100 /\ doc.per_billed >= 100
        THEN "Completed"
        ELSE IF doc.docstatus = 1 /\ doc.per_delivered < 100 /\ doc.per_billed >= 100
        THEN "To Deliver"
        ELSE IF doc.docstatus = 1 /\ doc.per_delivered >= 100 /\ doc.per_billed < 100
        THEN "To Bill"
        ELSE IF doc.docstatus = 1 THEN "To Deliver and Bill"
        ELSE "Draft"

\* get_reserved_qty of the stock balance utilities: what the submitted
\* Proformas that are neither on hold nor closed still have to deliver of an
\* item in a warehouse.
get_reserved_qty(P, item_code, warehouse) ==
    SumOver([n \in DOMAIN items |->
                IF /\ items[n].item_code = item_code
                   /\ items[n].warehouse = warehouse
                   /\ ~items[n].delivered_by_supplier
                   /\ P[items[n].parent].docstatus = 1
                   /\ P[items[n].parent].status \notin {"On Hold", "Closed"}
                THEN items[n].stock_qty
                        - items[n].delivered_qty * items[n].conversion_factor
                ELSE 0],
            DOMAIN items)

\* update_reserved_qty on the bins B: the bins of the Proforma's stock items,
\* recomputed from the Proformas P.
update_reserved_qty_in(B, P, name) ==
    LET rows == items_of(name)
        direct == {<<rows[k].item_code, rows[k].warehouse>> :
                      k \in {j \in DOMAIN rows :
                                /\ ~rows[j].delivered_by_supplier
                                /\ ~is_product_bundle(rows[j].item_code)}}
        packed == {<<packed_items[k].item_code, packed_items[k].warehouse>> :
                      k \in {j \in DOMAIN packed_items :
                                \E i \in DOMAIN rows :
                                    /\ ~rows[i].delivered_by_supplier
                                    /\ is_product_bundle(rows[i].item_code)
                                    /\ packed_items[j].parent_detail_docname = rows[i].name
                                    /\ packed_items[j].parent_item = rows[i].item_code}}
        item_wh_list == {b \in direct \cup packed :
                            b[1] # "" /\ b[2] # "" /\ is_stock_item(b[1])}
    IN  [b \in DOMAIN B \cup item_wh_list |->
            IF b \in item_wh_list
            THEN [actual_qty |-> IF b \in DOMAIN B THEN B[b].actual_qty ELSE 0,
                  reserved_qty |-> get_reserved_qty(P, b[1], b[2])]
            ELSE B[b]]

\* update_reserved_qty: the bins of the Proforma's stock items, recomputed.
update_reserved_qty(P, name) == update_reserved_qty_in(bin, P, name)

\* check_modified_date that never raises.
check_modified_date_never(doc) == FALSE

\* check_modified_date: TRUE when it raises, the copy in memory is not the
\* one the database holds now.
check_modified_date(doc) == proformas[doc.name].modified # doc.modified

\* check_nextdoc_docstatus that never raises.
check_nextdoc_docstatus_never(name) == FALSE

\* check_nextdoc_docstatus: TRUE when it raises, a draft Sales Invoice has
\* an item of this Proforma.
check_nextdoc_docstatus(name) ==
    \E k \in DOMAIN sales_invoices :
        /\ sales_invoices[k].docstatus = 0
        /\ \E j \in DOMAIN sales_invoices[k].items :
              sales_invoices[k].items[j].proforma = name

\* on_cancel without the test on a closed document.
cannot_cancel_closed_never(doc) == FALSE

\* The test of on_cancel on a closed document: TRUE when it raises.
cannot_cancel_closed(doc) == doc.status = "Closed"

\* cancel_stock_reservation_entries: the entries of the voucher that still
\* hold stock are cancelled.
cancel_stock_reservation_entries(S, voucher_type, voucher_no) ==
    [k \in DOMAIN S |->
        IF /\ sre_is_active(S[k])
           /\ S[k].voucher_type = voucher_type
           /\ S[k].voucher_no = voucher_no
        THEN [S[k] EXCEPT !.docstatus = 2, !.status = "Cancelled"]
        ELSE S[k]]

\* unlink_inter_company_doc: the reference is cleared on the document and on
\* the document of the other side, looked up by the doctype the code picks.
unlink_inter_company_doc(P, L, doctype, name, inter_company_reference) ==
    LET ref_doc == IF doctype = "Sales Order" THEN "Purchase Order" ELSE "Sales Order"
    IN  IF inter_company_reference = "" THEN [proformas |-> P, linked_docs |-> L]
        ELSE [proformas |->
                 IF doctype = "Proforma" /\ name \in DOMAIN P
                 THEN [P EXCEPT ![name].inter_company_order_reference = ""]
                 ELSE P,
              linked_docs |->
                 [k \in DOMAIN L |->
                    IF (L[k].doctype = doctype /\ L[k].name = name)
                       \/ (L[k].doctype = ref_doc /\ L[k].name = inter_company_reference)
                    THEN [L[k] EXCEPT !.inter_company_order_reference = ""]
                    ELSE L[k]]]

\* Proforma.update_status on the document doc held in memory.
Proforma_update_status(doc, status, credit_limit_ok) ==
    LET unchanged == [proformas |-> proformas, bin |-> bin]
        P == [proformas EXCEPT ![doc.name].status = set_status(doc, status),
                               ![doc.name].modified = @ + 1]
    IN  IF check_modified_date(doc)
        THEN [raised |-> TRUE, raised_at |-> "check_modified_date"] @@ unchanged
        ELSE IF status = "Draft" /\ doc.docstatus = 1 /\ ~credit_limit_ok
        THEN [raised |-> TRUE, raised_at |-> "check_credit_limit"] @@ unchanged
        ELSE [raised |-> FALSE, raised_at |-> "", proformas |-> P,
              bin |-> update_reserved_qty(P, doc.name)]

\* on_cancel, run by the save that has set docstatus to 2.
on_cancel(name) ==
    LET unchanged == [proformas |-> proformas, bin |-> bin, sres |-> sres,
                      linked_docs |-> linked_docs]
        doc == proformas[name]
        P1 == [proformas EXCEPT ![name].docstatus = 2, ![name].modified = @ + 1]
        P2 == [P1 EXCEPT ![name].status = "Cancelled"]
        unlinked == unlink_inter_company_doc(P2, linked_docs, "Proforma", name,
                                             doc.inter_company_order_reference)
    IN  IF doc.docstatus # 1
        THEN [raised |-> TRUE, raised_at |-> "docstatus"] @@ unchanged
        ELSE IF cannot_cancel_closed(doc)
        THEN [raised |-> TRUE, raised_at |-> "closed"] @@ unchanged
        ELSE IF check_nextdoc_docstatus(name)
        THEN [raised |-> TRUE, raised_at |-> "check_nextdoc_docstatus"] @@ unchanged
        ELSE [raised |-> FALSE, raised_at |-> "",
              proformas |-> unlinked.proformas,
              bin |-> update_reserved_qty(P1, name),
              sres |-> cancel_stock_reservation_entries(sres, "Proforma", name),
              linked_docs |-> unlinked.linked_docs]

StatusInputs == {"Closed", "Draft", "On Hold", "Cancelled"}

\* A session loads the Proforma (frappe.get_doc) and keeps the copy.
Load ==
    /\ call.phase = "idle"
    /\ \E s \in Sessions, name \in DOMAIN proformas :
          sessions' = (s :> ([name |-> name] @@ proformas[name])) @@ sessions
    /\ UNCHANGED <<selling_settings, quotations, stock_settings, proformas, items, packed_items, linked_docs,
                   bin, sres, purchase_orders, sales_invoices, call>>

\* Proforma.update_status on the copy a session holds.
Call_Proforma_update_status ==
    /\ call.phase = "idle"
    /\ \E s \in DOMAIN sessions, status \in StatusInputs, credit_limit_ok \in BOOLEAN :
          LET doc == sessions[s]
              out == Proforma_update_status(doc, status, credit_limit_ok)
          IN  /\ proformas[doc.name].modified < MaxModified
              /\ proformas' = out.proformas
              /\ bin' = out.bin
              /\ sessions' = IF out.raised THEN sessions
                             ELSE [sessions EXCEPT
                                      ![s] = [name |-> doc.name] @@ out.proformas[doc.name]]
              /\ call' = [phase |-> "done", fn |-> "Proforma.update_status",
                          name |-> doc.name, session |-> s, status |-> status,
                          raised |-> out.raised, raised_at |-> out.raised_at]
    /\ UNCHANGED <<selling_settings, quotations, stock_settings, items, packed_items, linked_docs, sres,
                   purchase_orders, sales_invoices>>

\* The whitelisted update_status: it loads the document and updates it.
Call_update_status ==
    /\ call.phase = "idle"
    /\ \E name \in DOMAIN proformas, status \in StatusInputs, credit_limit_ok \in BOOLEAN :
          LET so == [name |-> name] @@ proformas[name]
              out == Proforma_update_status(so, status, credit_limit_ok)
          IN  /\ proformas[name].modified < MaxModified
              /\ proformas' = out.proformas
              /\ bin' = out.bin
              /\ call' = [phase |-> "done", fn |-> "update_status",
                          name |-> name, session |-> "", status |-> status,
                          raised |-> out.raised, raised_at |-> out.raised_at]
    /\ UNCHANGED <<selling_settings, quotations, stock_settings, items, packed_items, linked_docs, sres,
                   purchase_orders, sales_invoices, sessions>>

\* The document is cancelled: on_cancel runs on the freshly loaded document.
Call_on_cancel ==
    /\ call.phase = "idle"
    /\ \E name \in DOMAIN proformas :
          LET out == on_cancel(name)
          IN  /\ proformas[name].modified < MaxModified
              /\ proformas' = out.proformas
              /\ bin' = out.bin
              /\ sres' = out.sres
              /\ linked_docs' = out.linked_docs
              /\ call' = [phase |-> "done", fn |-> "on_cancel", name |-> name,
                          session |-> "", status |-> "",
                          raised |-> out.raised, raised_at |-> out.raised_at]
    /\ UNCHANGED <<selling_settings, quotations, stock_settings, items, packed_items, purchase_orders,
                   sales_invoices, sessions>>

\* The Sales Invoices a Proforma may have when it is cancelled.
LifeInvoices ==
    { <<>>,
      <<[name |-> "SINV-1", docstatus |-> 0, items |-> <<[proforma |-> "PF-1"]>>]>>,
      <<[name |-> "SINV-1", docstatus |-> 1, items |-> <<[proforma |-> "PF-1"]>>]>>,
      <<[name |-> "SINV-1", docstatus |-> 0, items |-> <<[proforma |-> "PF-2"]>>]>> }

InitLife ==
    /\ stock_settings = [enable_stock_reservation |-> TRUE,
                         allow_partial_reservation |-> TRUE]
    /\ \E per_billed \in {0, 100}, reference \in {"", "PO-IC-1"} :
          /\ proformas =
                [n \in {"PF-1"} |->
                    [SubmittedProforma EXCEPT
                        !.per_billed = per_billed,
                        !.status = set_status([SubmittedProforma EXCEPT
                                                  !.per_billed = per_billed], ""),
                        !.inter_company_order_reference = reference]]
          /\ linked_docs =
                IF reference = "" THEN <<>>
                ELSE <<[doctype |-> "Purchase Order", name |-> reference,
                        inter_company_order_reference |-> "PF-1"]>>
    /\ \E delivered \in {0, 1} :
          items = <<[Row("ITEM-A", "WH-1", 2, 1, delivered, 0, TRUE) EXCEPT !.name = 1],
                    [Row("ITEM-A", "WH-1", 1, 2, 0, 0, TRUE) EXCEPT !.name = 2]>>
    /\ packed_items = <<>>
    /\ bin = [b \in {<<"ITEM-A", "WH-1">>} |->
                [actual_qty |-> 3,
                 reserved_qty |-> get_reserved_qty(proformas, "ITEM-A", "WH-1")]]
    /\ sres \in { <<>>,
                  <<new_sre(<<>>, "PF-1", "Proforma", items[2], 3, 2, "")>> }
    /\ purchase_orders = <<>>
    /\ sales_invoices \in LifeInvoices
    /\ sessions = <<>>
    /\ selling_settings = DefaultSellingSettings
    /\ quotations = <<>>
    /\ call = Idle

NextLife ==
    \/ Load
    \/ Call_Proforma_update_status
    \/ Call_update_status
    \/ Call_on_cancel
    \/ Return

SpecLife == InitLife /\ [][NextLife]_vars

(***************************************************************************)
(* Claims about cancellation and status updates (SpecLife).                *)
(***************************************************************************)
CancelStep == call'.phase = "done" /\ call'.fn = "on_cancel"

CancelLeavesAll ==
    /\ proformas' = proformas
    /\ bin' = bin
    /\ sres' = sres
    /\ linked_docs' = linked_docs

\* C8: a Proforma whose status is "Closed" cannot be cancelled: on_cancel on
\* it raises on the Closed test and leaves reserved quantities, status, Stock
\* Reservation Entries and the inter-company link as they were, and no step
\* takes a submitted Closed Proforma to docstatus 2 or to "Cancelled".
C8_ClosedCannotBeCancelled ==
    [][\A name \in DOMAIN proformas :
          proformas[name].status = "Closed" =>
              /\ (CancelStep /\ call'.name = name) =>
                    (call'.raised /\ CancelLeavesAll)
              /\ proformas[name].docstatus = 1 =>
                    /\ proformas'[name].docstatus = 1
                    /\ proformas'[name].status # "Cancelled"]_vars

\* C8 witness: on_cancel was refused on a submitted Closed Proforma that has
\* reservations to cancel.
C8_Witness ==
    /\ call.phase = "done"
    /\ call.fn = "on_cancel"
    /\ call.raised_at = "closed"
    /\ proformas[call.name].status = "Closed"
    /\ proformas[call.name].docstatus = 1
    /\ \E k \in DOMAIN sres : sre_is_active(sres[k])

DraftInvoiceRefers(name) ==
    \E k \in DOMAIN sales_invoices :
        /\ sales_invoices[k].docstatus = 0
        /\ \E j \in DOMAIN sales_invoices[k].items :
              sales_invoices[k].items[j].proforma = name

C10_StaleCopyRejected ==
    [][(/\ call'.phase = "done"
        /\ call'.fn = "Proforma.update_status"
        /\ sessions[call'.session].modified # proformas[call'.name].modified)
          => /\ call'.raised
             /\ call'.raised_at = "check_modified_date"
             /\ proformas' = proformas
             /\ bin' = bin]_vars

\* C10 witness: two sessions loaded the Proforma, the first closed it, and
\* the second was rejected on its stale copy.
C10_Witness ==
    /\ call.phase = "done"
    /\ call.fn = "Proforma.update_status"
    /\ call.raised_at = "check_modified_date"
    /\ Sessions \subseteq DOMAIN sessions
    /\ \E s \in Sessions \ {call.session} :
          /\ sessions[s].modified = proformas[call.name].modified
          /\ sessions[s].status = "Closed"
          /\ sessions[call.session].modified < sessions[s].modified
          /\ sessions[call.session].status # "Closed"

(***************************************************************************)
(* close_or_unclose_proforma.                                              *)
(***************************************************************************)
MaxNames == 2

\* The permission test left out.
not_permitted_never(has_permission) == FALSE

\* The permission test: TRUE when it raises, the user may not write Proformas.
not_permitted(has_permission) == ~has_permission

\* The test of the "Closed" branch with the delivered and billed shares ignored.
can_close_whatever_share(so) == so.status \notin {"Cancelled", "Closed"}

\* The test of the "Closed" branch: the document can still be closed.
can_close(so) ==
    /\ so.status \notin {"Cancelled", "Closed"}
    /\ (so.per_delivered < 100 \/ so.per_billed < 100)

\* The test of the other branch passing every document.
can_unclose_any(so) == TRUE

\* The test of the other branch: the document is closed and is re-opened.
can_unclose(so) == so.status = "Closed"

\* so.update_status(status) on the document so just loaded from P: its
\* modified is the stored one, so check_modified_date passes.
update_status_of_loaded(st, so, status, credit_limit_ok) ==
    LET P == [st.proformas EXCEPT ![so.name].status = set_status(so, status),
                                  ![so.name].modified = @ + 1]
    IN  IF status = "Draft" /\ so.docstatus = 1 /\ ~credit_limit_ok
        THEN [st EXCEPT !.raised = TRUE, !.raised_at = "check_credit_limit"]
        ELSE [st EXCEPT !.proformas = P,
                        !.bin = update_reserved_qty_in(st.bin, P, so.name),
                        !.updated = Append(@, [name |-> so.name, status |-> status])]

\* The body of the loop for one name.
close_or_unclose_one(st, name, status, credit_limit_ok) ==
    IF name \notin DOMAIN st.proformas
    THEN [st EXCEPT !.raised = TRUE, !.raised_at = "get_doc"]
    ELSE LET so == [name |-> name] @@ st.proformas[name]
             loaded == [st EXCEPT !.loaded = Append(@, name)]
         IN  IF so.docstatus # 1 THEN loaded
             ELSE IF status = "Closed"
             THEN IF can_close(so)
                  THEN update_status_of_loaded(loaded, so, status, credit_limit_ok)
                  ELSE loaded
             ELSE IF can_unclose(so)
                  THEN update_status_of_loaded(loaded, so, "Draft", credit_limit_ok)
                  ELSE loaded

RECURSIVE close_or_unclose_names(_, _, _, _, _)
\* The loop over names from name k on; it stops at the name that raises.
close_or_unclose_names(names, k, st, status, credit_limit_ok) ==
    IF k > Len(names) \/ st.raised THEN st
    ELSE close_or_unclose_names(names, k + 1,
            close_or_unclose_one(st, names[k], status, credit_limit_ok),
            status, credit_limit_ok)

\* close_or_unclose_proforma: what the call leaves.
close_or_unclose_proforma(names, status, has_permission, credit_limit_ok) ==
    LET st0 == [raised |-> FALSE, raised_at |-> "", proformas |-> proformas,
                bin |-> bin, loaded |-> <<>>, updated |-> <<>>]
    IN  IF not_permitted(has_permission)
        THEN [st0 EXCEPT !.raised = TRUE, !.raised_at = "has_permission"]
        ELSE close_or_unclose_names(names, 1, st0, status, credit_limit_ok)

CloseNames == UNION {[1..m -> {"PF-1", "PF-2", "PF-9"}] : m \in 0..MaxNames}

CloseStatusInputs == {"Closed", "Draft", "On Hold", "Completed"}

\* The whitelisted call.  A raise undoes what the earlier names wrote.
Call_close_or_unclose_proforma ==
    /\ call.phase = "idle"
    /\ \A n \in DOMAIN proformas : proformas[n].modified < MaxModified
    /\ \E names \in CloseNames, status \in CloseStatusInputs,
          has_permission \in BOOLEAN, credit_limit_ok \in BOOLEAN :
          LET out == close_or_unclose_proforma(names, status, has_permission,
                                               credit_limit_ok)
          IN  /\ proformas' = IF out.raised THEN proformas ELSE out.proformas
              /\ bin' = IF out.raised THEN bin ELSE out.bin
              /\ call' = [phase |-> "done", fn |-> "close_or_unclose_proforma",
                          names |-> names, status |-> status,
                          has_permission |-> has_permission,
                          raised |-> out.raised, raised_at |-> out.raised_at,
                          loaded |-> out.loaded,
                          updated |-> IF out.raised THEN <<>> ELSE out.updated]
    /\ UNCHANGED <<selling_settings, quotations, stock_settings, items, packed_items, linked_docs, sres,
                   purchase_orders, sales_invoices, sessions>>

\* The Proformas close_or_unclose_proforma is tried on.
CloseKinds ==
    { [SubmittedProforma EXCEPT !.docstatus = 0, !.status = "Draft"],
      SubmittedProforma,
      [SubmittedProforma EXCEPT !.per_delivered = 100, !.status = "To Bill"],
      [SubmittedProforma EXCEPT !.per_delivered = 100, !.per_billed = 100,
                                !.status = "Completed"],
      [SubmittedProforma EXCEPT !.status = "Closed"],
      [SubmittedProforma EXCEPT !.status = "On Hold"],
      [SubmittedProforma EXCEPT !.docstatus = 2, !.status = "Cancelled"] }

InitClose ==
    /\ stock_settings = [enable_stock_reservation |-> TRUE,
                         allow_partial_reservation |-> TRUE]
    /\ proformas \in [{"PF-1", "PF-2"} -> CloseKinds]
    /\ items = <<[Row("ITEM-A", "WH-1", 2, 1, 0, 0, FALSE) EXCEPT !.name = 1],
                 [Row("ITEM-A", "WH-1", 1, 1, 0, 0, FALSE) EXCEPT
                     !.name = 2, !.parent = "PF-2"]>>
    /\ packed_items = <<>>
    /\ linked_docs = <<>>
    /\ bin = [b \in {<<"ITEM-A", "WH-1">>} |->
                [actual_qty |-> 3,
                 reserved_qty |-> get_reserved_qty(proformas, "ITEM-A", "WH-1")]]
    /\ sres = <<>>
    /\ purchase_orders = <<>>
    /\ sales_invoices = <<>>
    /\ sessions = <<>>
    /\ selling_settings = DefaultSellingSettings
    /\ quotations = <<>>
    /\ call = Idle

NextClose ==
    \/ Call_close_or_unclose_proforma
    \/ Return

SpecClose == InitClose /\ [][NextClose]_vars

(***************************************************************************)
(* Claims about close_or_unclose_proforma (SpecClose).                     *)
(***************************************************************************)
CloseStep == call'.phase = "done" /\ call'.fn = "close_or_unclose_proforma"

Named(names) == {names[k] : k \in DOMAIN names} \cap DOMAIN proformas

UpdatedWith(updated, status) ==
    {updated[k].name : k \in {j \in DOMAIN updated : updated[j].status = status}}

\* C11: close_or_unclose_proforma called by a user without write permission
\* raises on the permission test before any named document is loaded, and no
\* Proforma's status changes.
C11_NoPermissionNoChange ==
    [][(CloseStep /\ ~call'.has_permission) =>
          /\ call'.raised
          /\ call'.raised_at = "has_permission"
          /\ call'.loaded = <<>>
          /\ proformas' = proformas
          /\ bin' = bin]_vars

\* C11 witness: a call naming a Proforma that could be closed, and one that
\* does not exist, was refused for want of permission.
C11_Witness ==
    /\ call.phase = "done"
    /\ call.fn = "close_or_unclose_proforma"
    /\ ~call.has_permission
    /\ call.raised_at = "has_permission"
    /\ call.status = "Closed"
    /\ \E k \in DOMAIN call.names :
          /\ call.names[k] \in DOMAIN proformas
          /\ proformas[call.names[k]].docstatus = 1
          /\ can_close(proformas[call.names[k]])
    /\ \E k \in DOMAIN call.names : call.names[k] \notin DOMAIN proformas

\* C12: with status "Closed", in a call that does not raise, update_status
\* closes a named Proforma if and only if it is submitted, its status is
\* neither "Cancelled" nor "Closed", and per_delivered < 100 or
\* per_billed < 100; it is then "Closed", and every other Proforma (fully
\* delivered and billed, draft, cancelled, already closed, not named) keeps
\* its status; a call that raises changes nothing.
C12_ClosesOnlyOpenSubmitted ==
    [][(CloseStep /\ call'.status = "Closed") =>
          /\ call'.raised => proformas' = proformas
          /\ ~call'.raised =>
                \A n \in DOMAIN proformas :
                    LET so == proformas[n]
                        closes == /\ n \in Named(call'.names)
                                  /\ so.docstatus = 1
                                  /\ so.status # "Cancelled"
                                  /\ so.status # "Closed"
                                  /\ (so.per_delivered < 100 \/ so.per_billed < 100)
                    IN  /\ closes <=> n \in UpdatedWith(call'.updated, "Closed")
                        /\ closes => proformas'[n].status = "Closed"
                        /\ ~closes => proformas'[n].status = so.status]_vars

\* C12 witness: one call closed a Proforma still to be billed and left a
\* completed one as it was.
C12_Witness ==
    /\ call.phase = "done"
    /\ call.fn = "close_or_unclose_proforma"
    /\ call.status = "Closed"
    /\ ~call.raised
    /\ Len(call.updated) = 1
    /\ Len(call.names) = 2
    /\ \E n \in Named(call.names) :
          /\ proformas[n].status = "Completed"
          /\ proformas[n].per_delivered = 100
          /\ proformas[n].per_billed = 100
    /\ \E n \in Named(call.names) :
          /\ proformas[n].status = "Closed"
          /\ proformas[n].per_delivered = 100
          /\ n \in UpdatedWith(call.updated, "Closed")

\* C13: with any status other than "Closed", in a call that does not raise,
\* update_status("Draft") is applied to exactly the named submitted Proformas
\* whose status is "Closed", and the status of every other Proforma is
\* unchanged, whatever status string was passed; a call that raises changes
\* nothing.
C13_UnclosesOnlyClosed ==
    [][(CloseStep /\ call'.status # "Closed") =>
          /\ call'.raised => proformas' = proformas
          /\ ~call'.raised =>
                /\ \A k \in DOMAIN call'.updated : call'.updated[k].status = "Draft"
                /\ \A n \in DOMAIN proformas :
                      LET so == proformas[n]
                          reopens == /\ n \in Named(call'.names)
                                     /\ so.docstatus = 1
                                     /\ so.status = "Closed"
                      IN  /\ reopens <=> n \in UpdatedWith(call'.updated, "Draft")
                          /\ ~reopens => proformas'[n].status = so.status]_vars

\* C13 witness: a call passing "On Hold" re-opened a closed Proforma and left
\* an open one as it was.
C13_Witness ==
    /\ call.phase = "done"
    /\ call.fn = "close_or_unclose_proforma"
    /\ call.status = "On Hold"
    /\ ~call.raised
    /\ Len(call.names) = 2
    /\ \E n \in Named(call.names) :
          /\ n \in UpdatedWith(call.updated, "Draft")
          /\ proformas[n].status \notin {"Closed", "On Hold"}
          /\ proformas[n].modified > 0
    /\ \E n \in Named(call.names) :
          /\ n \notin UpdatedWith(call.updated, "Draft")
          /\ proformas[n].docstatus = 1
          /\ proformas[n].modified = 0

(***************************************************************************)
(* validate: validate_po and validate_inter_company_party.                 *)
(***************************************************************************)
\* tabCustomer and tabSupplier: the parties inter-company validation reads.
Customers ==
    [n \in {"CUST-1", "CUST-INT", "ACME"} |->
        [is_internal |-> n # "CUST-1",
         represents_company |-> IF n = "CUST-INT" THEN "COMP-B"
                                ELSE IF n = "ACME" THEN "COMP-C" ELSE "",
         companies |-> IF n = "CUST-1" THEN {} ELSE {"COMP-A"}]]

Suppliers ==
    [n \in {"SUP-INT", "ACME"} |->
        [is_internal |-> TRUE,
         represents_company |-> IF n = "SUP-INT" THEN "COMP-A" ELSE "COMP-C",
         companies |-> {"COMP-B"}]]

Parties(partytype) == IF partytype = "Customer" THEN Customers ELSE Suppliers

\* frappe.db.get_value(partytype, {"represents_company": company}, "name").
party_representing(partytype, company) ==
    LET found == {n \in DOMAIN Parties(partytype) :
                     Parties(partytype)[n].represents_company = company}
    IN  IF found = {} THEN "" ELSE CHOOSE n \in found : TRUE

\* The value of represents_company of a party, "" when there is none.
represents_company(partytype, party) ==
    IF party \in DOMAIN Parties(partytype)
    THEN Parties(partytype)[party].represents_company ELSE ""

\* The documents frappe.get_doc(doctype, name) finds.
docs_named(doctype, name) ==
    {linked_docs[k] : k \in {j \in DOMAIN linked_docs :
                                /\ linked_docs[j].doctype = doctype
                                /\ linked_docs[j].name = name}}

\* The doctypes validate_inter_company_party takes for the selling side.
SellingDoctypes == {"Sales Invoice", "Sales Order", "Porforma"}

\* validate_inter_company_party: "" when it passes, else what it raised on.
validate_inter_company_party(doctype, party, company, inter_company_reference) ==
    LET selling == doctype \in SellingDoctypes
        partytype == IF selling THEN "Customer" ELSE "Supplier"
        ref_partytype == IF selling THEN "Supplier" ELSE "Customer"
        ref_doc == IF selling
                   THEN (IF doctype = "Sales Invoice" THEN "Purchase Invoice"
                         ELSE "Purchase Order")
                   ELSE (IF doctype = "Purchase Invoice" THEN "Sales Invoice"
                         ELSE "Proforma")
        found == IF ref_doc = "Proforma"
                 THEN {proformas[n] : n \in {inter_company_reference} \cap DOMAIN proformas}
                 ELSE docs_named(ref_doc, inter_company_reference)
    IN  IF party = "" THEN ""
        ELSE IF inter_company_reference # ""
        THEN IF found = {} THEN "get_doc"
             ELSE LET doc == CHOOSE d \in found : TRUE
                      party_field == IF doctype \in {"Sales Invoice", "Sales Order", "Proforma"}
                                     THEN "supplier" ELSE "customer"
                  IN  IF party_field \notin DOMAIN doc THEN "ref_party"
                      ELSE IF party_representing(partytype, doc.company) # party
                      THEN "Invalid party"
                      ELSE IF represents_company(ref_partytype, doc[party_field]) # company
                      THEN "Invalid Company"
                      ELSE ""
        ELSE IF /\ party \in DOMAIN Parties(partytype)
                /\ Parties(partytype)[party].is_internal
                /\ company \notin Parties(partytype)[party].companies
        THEN "not allowed to transact"
        ELSE ""

\* The Proformas against the same purchase order, cancelled ones and the
\* document itself included.
proformas_against_po_any(doc) ==
    {n \in DOMAIN proformas :
        proformas[n].po_no = doc.po_no /\ proformas[n].customer = doc.customer}

\* The other Proformas of the customer against the same purchase order.
proformas_against_po(doc) ==
    {n \in DOMAIN proformas :
        /\ proformas[n].po_no = doc.po_no
        /\ n # doc.name
        /\ proformas[n].docstatus < 2
        /\ proformas[n].customer = doc.customer}

\* validate_po: what it raised on ("" when it passes) and the message it left.
validate_po(doc) ==
    IF /\ doc.po_date # 0
       /\ ~doc.skip_delivery_note
       /\ \E k \in DOMAIN doc.items :
             doc.items[k].delivery_date # 0 /\ doc.po_date > doc.items[k].delivery_date
    THEN [raised_at |-> "po_date", messages |-> <<>>]
    ELSE IF /\ doc.po_no # "" /\ doc.customer # "" /\ ~doc.skip_delivery_note
            /\ proformas_against_po(doc) # {}
    THEN IF selling_settings.allow_against_multiple_purchase_orders
         THEN [raised_at |-> "", messages |-> <<"Warning: Proforma already exists">>]
         ELSE [raised_at |-> "po_no", messages |-> <<>>]
    ELSE [raised_at |-> "", messages |-> <<>>]

\* validate: validate_po, the validations of the rows, then
\* validate_inter_company_party; the first that raises ends it.
validate(doc, rows_valid) ==
    LET po == validate_po(doc)
        party == validate_inter_company_party(doc.doctype, doc.customer, doc.company,
                                              doc.inter_company_order_reference)
    IN  IF po.raised_at # ""
        THEN [raised_at |-> po.raised_at, messages |-> po.messages, passed |-> <<>>]
        ELSE IF ~rows_valid
        THEN [raised_at |-> "validate_for_items", messages |-> po.messages,
              passed |-> <<"validate_po">>]
        ELSE IF party # ""
        THEN [raised_at |-> party, messages |-> po.messages,
              passed |-> <<"validate_po", "validate_for_items">>]
        ELSE [raised_at |-> "", messages |-> po.messages,
              passed |-> <<"validate_po", "validate_for_items",
                           "validate_inter_company_party">>]

\* The documents validate is run on.
ValidatedDocs ==
    [doctype : {"Proforma"}, name : {"PF-1", "PF-2"}, po_no : {"", "PO-7"},
     po_date : {0, 3}, items : {<<[delivery_date |-> 0]>>, <<[delivery_date |-> 2]>>},
     customer : {"", "CUST-1", "CUST-INT", "ACME"}, skip_delivery_note : BOOLEAN,
     company : {"COMP-A", "COMP-B"},
     inter_company_order_reference : {"", "PO-IC-1"}]

\* A Proforma is validated before it is saved; validate writes nothing.
Call_validate ==
    /\ call.phase = "idle"
    /\ \E doc \in ValidatedDocs, rows_valid \in BOOLEAN :
          LET out == validate(doc, rows_valid)
          IN  call' = [phase |-> "done", fn |-> "validate", doc |-> doc,
                       raised |-> out.raised_at # "", raised_at |-> out.raised_at,
                       messages |-> out.messages, passed |-> out.passed]
    /\ UNCHANGED <<selling_settings, quotations, stock_settings, proformas, items,
                   packed_items, linked_docs, bin, sres, purchase_orders,
                   sales_invoices, sessions>>

\* The Proformas already stored when one is validated.
StoredForValidate ==
    { [SubmittedProforma EXCEPT !.docstatus = d] @@
          [po_no |-> po, customer |-> c, company |-> "COMP-A"] :
      d \in {0, 1, 2}, po \in {"", "PO-7"}, c \in {"CUST-1", "ACME"} }

InitValidate ==
    /\ stock_settings = [enable_stock_reservation |-> TRUE,
                         allow_partial_reservation |-> TRUE]
    /\ \E flag \in BOOLEAN :
          selling_settings = [DefaultSellingSettings EXCEPT
                                 !.allow_against_multiple_purchase_orders = flag]
    /\ quotations = <<>>
    /\ \E stored \in StoredForValidate : proformas = [n \in {"PF-1"} |-> stored]
    /\ items = <<>>
    /\ packed_items = <<>>
    /\ linked_docs = <<[doctype |-> "Purchase Order", name |-> "PO-IC-1",
                        company |-> "COMP-B", supplier |-> "SUP-INT",
                        inter_company_order_reference |-> ""]>>
    /\ bin = <<>>
    /\ sres = <<>>
    /\ purchase_orders = <<>>
    /\ sales_invoices = <<>>
    /\ sessions = <<>>
    /\ call = Idle

NextValidate ==
    \/ Call_validate
    \/ Return

SpecValidate == InitValidate /\ [][NextValidate]_vars

(***************************************************************************)
(* Claims about validate (SpecValidate).                                   *)
(***************************************************************************)
ValidateDone == call.phase = "done" /\ call.fn = "validate"

\* Another Proforma that is not cancelled, of the same customer, has the
\* same po_no.
OtherAgainstSamePo(doc) ==
    \E n \in DOMAIN proformas :
        /\ n # doc.name
        /\ proformas[n].docstatus < 2
        /\ proformas[n].customer = doc.customer
        /\ proformas[n].po_no = doc.po_no

Warned == \E k \in DOMAIN call.messages : call.messages[k] = "Warning: Proforma already exists"

\* C14: for a Proforma with po_no and customer set and skip_delivery_note
\* unset that passes the purchase order date test: when another Proforma
\* that is not cancelled, of the same customer, has the same po_no,
\* validate_po raises if allow_against_multiple_purchase_orders is off, and
\* leaves a warning and lets validation go on if it is on; with no such
\* Proforma it does neither.
C14_DuplicatePoBlocksOrWarns ==
    (/\ ValidateDone
     /\ call.doc.po_no # ""
     /\ call.doc.customer # ""
     /\ ~call.doc.skip_delivery_note
     /\ call.raised_at # "po_date") =>
        LET other == OtherAgainstSamePo(call.doc)
            allow == selling_settings.allow_against_multiple_purchase_orders
        IN  /\ (other /\ ~allow) => (call.raised_at = "po_no" /\ ~Warned)
            /\ (other /\ allow) =>
                  /\ Warned
                  /\ call.raised_at # "po_no"
                  /\ Len(call.passed) >= 1
                  /\ call.passed[1] = "validate_po"
            /\ ~other => (~Warned /\ call.raised_at # "po_no")

\* C14 witness: a second Proforma against the purchase order of a submitted
\* one was let through with a warning and validated to the end.
C14_Witness ==
    /\ ValidateDone
    /\ Warned
    /\ ~call.raised
    /\ call.doc.name # "PF-1"
    /\ proformas["PF-1"].docstatus = 1
    /\ call.passed[Len(call.passed)] = "validate_inter_company_party"

\* The validation of the parties was reached.
PartyValidated ==
    /\ ValidateDone
    /\ Len(call.passed) >= 2
    /\ call.doc.customer # ""

\* C18: validate_inter_company_party for a Proforma treats the party as a
\* Customer and the counterpart as a Purchase Order: with no reference and
\* an internal customer it raises unless the Proforma's company is among the
\* companies the customer may transact with; with a reference it raises
\* unless the customer represents the company of the referenced Purchase
\* Order and that order's supplier represents the Proforma's company.
C18_ProformaPartyIsCustomer ==
    PartyValidated =>
        LET doc == call.doc
            customer == Customers[doc.customer]
            orders == docs_named("Purchase Order", doc.inter_company_order_reference)
        IN  /\ (doc.inter_company_order_reference = "" /\ customer.is_internal) =>
                  (call.raised <=> doc.company \notin customer.companies)
            /\ doc.inter_company_order_reference # "" =>
                  (call.raised <=>
                      ~ \E po \in orders :
                          /\ customer.represents_company = po.company
                          /\ po.supplier \in DOMAIN Suppliers
                          /\ Suppliers[po.supplier].represents_company = doc.company)

(***************************************************************************)
(* Making a Proforma from a Quotation (proforma.py, make_proforma)         *)
(***************************************************************************)

\* Dates are day numbers 1..MaxDate; a valid_till of 0 is a date not set.
MaxDate == 3

Dates == 1..MaxDate

quotation_expired_never(quotation, today) == FALSE

\* The test of lines 767-769 on the dates of the quotation.
quotation_expired(quotation, today) ==
    /\ quotation.valid_till # 0
    /\ \/ quotation.valid_till < quotation.transaction_date
       \/ quotation.valid_till < today

\* _make_customer: the customer of a quotation made to a Customer.
_make_customer(source_name) ==
    IF quotations[source_name].quotation_to = "Customer"
    THEN <<quotations[source_name].party_name>>
    ELSE <<>>

\* can_map_row with no rows selected: alternatives are left out.
can_map_row(item) == ~item.is_alternative

\* update_item of _make_proforma: the quantity not yet ordered.
quotation_update_item(obj, ordered_qty) ==
    LET balance_qty == obj.qty - ordered_qty
        qty == IF balance_qty > 0 THEN balance_qty ELSE 0
    IN  [item_code |-> obj.item_code, qty |-> qty,
         stock_qty |-> qty * obj.conversion_factor,
         prevdoc_docname |-> obj.parent, quotation_item |-> obj.name]

\* The quantity of an item on submitted Proformas made from the quotation;
\* the Proformas of the model were made from no quotation.
ordered_items(source_name, item_code) == 0

\* _make_proforma: the mapped document, or the error of the mapper.
_make_proforma(source_name, permitted) ==
    LET source == quotations[source_name]
        customer == _make_customer(source_name)
        rows == SelectSeq(source.items, can_map_row)
    IN  IF ~permitted
        THEN [raised |-> "PermissionError", returned |-> <<>>]
        ELSE IF source.docstatus # 1
        THEN [raised |-> "Cannot map because following condition fails: docstatus=1",
              returned |-> <<>>]
        ELSE [raised |-> "",
              returned |->
                 <<[doctype |-> "Proforma",
                    customer |-> IF customer = <<>> THEN "" ELSE customer[1],
                    items |-> [i \in 1..Len(rows) |->
                                  quotation_update_item(rows[i],
                                      ordered_items(source_name, rows[i].item_code))]]>>]

\* make_proforma: the result of the call, with whether the mapper was reached.
make_proforma(source_name, today, permitted) ==
    IF source_name \notin DOMAIN quotations
    THEN [raised |-> "AttributeError", proceeded |-> FALSE, returned |-> <<>>]
    ELSE IF /\ ~selling_settings.allow_sales_order_creation_for_expired_quotation
            /\ quotation_expired(quotations[source_name], today)
    THEN [raised |-> "Validity period of this quotation has ended.",
          proceeded |-> FALSE, returned |-> <<>>]
    ELSE LET r == _make_proforma(source_name, permitted)
         IN  [raised |-> r.raised, proceeded |-> TRUE, returned |-> r.returned]

Call_make_proforma ==
    /\ call.phase = "idle"
    /\ \E source_name \in {"QTN-1", "QTN-9"}, today \in Dates, permitted \in BOOLEAN :
          LET r == make_proforma(source_name, today, permitted)
          IN  call' = [phase |-> "done", fn |-> "make_proforma",
                       source_name |-> source_name, today |-> today,
                       raised |-> r.raised, proceeded |-> r.proceeded,
                       returned |-> r.returned]
    /\ UNCHANGED <<selling_settings, quotations, stock_settings, proformas, items,
                   packed_items, linked_docs, bin, sres, purchase_orders,
                   sales_invoices, sessions>>

QuotationItems ==
    <<[name |-> "QI-1", parent |-> "QTN-1", item_code |-> "ITEM-A", qty |-> 2,
       conversion_factor |-> 1, is_alternative |-> FALSE],
      [name |-> "QI-2", parent |-> "QTN-1", item_code |-> "ITEM-B", qty |-> 1,
       conversion_factor |-> 2, is_alternative |-> TRUE]>>

StoredQuotations ==
    [transaction_date : Dates, valid_till : 0..MaxDate, docstatus : {0, 1},
     quotation_to : {"Customer"}, party_name : {"CUST-A"},
     items : {QuotationItems}]

InitQuotation ==
    /\ stock_settings = [enable_stock_reservation |-> TRUE,
                         allow_partial_reservation |-> TRUE]
    /\ \E flag \in BOOLEAN :
          selling_settings = [DefaultSellingSettings EXCEPT
                                 !.allow_sales_order_creation_for_expired_quotation = flag]
    /\ \E q \in StoredQuotations : quotations = [n \in {"QTN-1"} |-> q]
    /\ proformas = <<>>
    /\ items = <<>>
    /\ packed_items = <<>>
    /\ linked_docs = <<>>
    /\ bin = <<>>
    /\ sres = <<>>
    /\ purchase_orders = <<>>
    /\ sales_invoices = <<>>
    /\ sessions = <<>>
    /\ call = Idle

NextQuotation ==
    \/ Call_make_proforma
    \/ Return

SpecQuotation == InitQuotation /\ [][NextQuotation]_vars

\* A call of make_proforma on a stored quotation has ended.
MakeProformaDone ==
    /\ call.phase = "done"
    /\ call.fn = "make_proforma"
    /\ call.source_name \in DOMAIN quotations

\* C16: make_proforma raises "Validity period of this quotation has ended."
\* and maps nothing when the setting
\* allow_sales_order_creation_for_expired_quotation is off and valid_till is
\* set and earlier than transaction_date or earlier than today; in every
\* other case it proceeds to map the quotation.
C16_ExpiredQuotationRefused ==
    MakeProformaDone =>
        LET q == quotations[call.source_name]
            refused == /\ ~selling_settings.allow_sales_order_creation_for_expired_quotation
                       /\ q.valid_till # 0
                       /\ (q.valid_till < q.transaction_date \/ q.valid_till < call.today)
        IN  /\ refused =>
                  /\ call.raised = "Validity period of this quotation has ended."
                  /\ ~call.proceeded
                  /\ call.returned = <<>>
            /\ ~refused =>
                  /\ call.proceeded
                  /\ call.raised # "Validity period of this quotation has ended."

\* A quotation still valid on its own date but past today is refused.
C16_Witness ==
    /\ MakeProformaDone
    /\ ~selling_settings.allow_sales_order_creation_for_expired_quotation
    /\ quotations[call.source_name].valid_till >= quotations[call.source_name].transaction_date
    /\ quotations[call.source_name].valid_till < call.today
    /\ call.raised = "Validity period of this quotation has ended."

(***************************************************************************)
(* Inter-company linkage on submit and cancel (general_functions.py)       *)
(***************************************************************************)

\* update_linked_doc: the name is written into the reference field of the
\* document of the same doctype that the reference names, if there is one.
update_linked_doc(P, L, doctype, name, inter_company_reference) ==
    IF inter_company_reference = "" THEN [proformas |-> P, linked_docs |-> L]
    ELSE [proformas |->
             IF doctype = "Proforma" /\ inter_company_reference \in DOMAIN P
             THEN [P EXCEPT ![inter_company_reference].inter_company_order_reference = name,
                            ![inter_company_reference].modified = @ + 1]
             ELSE P,
          linked_docs |->
             [k \in DOMAIN L |->
                IF L[k].doctype = doctype /\ L[k].name = inter_company_reference
                THEN [L[k] EXCEPT !.inter_company_order_reference = name]
                ELSE L[k]]]

\* on_submit, run by the save that has set docstatus to 1.
on_submit(name, credit_limit_ok, authorized) ==
    LET unchanged == [proformas |-> proformas, bin |-> bin, sres |-> sres,
                      items |-> items, linked_docs |-> linked_docs]
        doc == proformas[name]
        P1 == [proformas EXCEPT
                  ![name].docstatus = 1,
                  ![name].status = set_status([doc EXCEPT !.docstatus = 1], ""),
                  ![name].modified = @ + 1]
        linked == update_linked_doc(P1, linked_docs, "Proforma", name,
                                    doc.inter_company_order_reference)
        reserved == create_stock_reservation_entries_for_so_items(
                        name, "Proforma", <<>>, "", "submit")
    IN  IF doc.docstatus # 0
        THEN [raised |-> TRUE, raised_at |-> "docstatus"] @@ unchanged
        ELSE IF ~credit_limit_ok
        THEN [raised |-> TRUE, raised_at |-> "check_credit_limit"] @@ unchanged
        ELSE IF ~authorized
        THEN [raised |-> TRUE, raised_at |-> "validate_approving_authority"] @@ unchanged
        ELSE IF doc.reserve_stock /\ reserved.raised
        THEN [raised |-> TRUE, raised_at |-> "create_stock_reservation_entries"]
             @@ unchanged
        ELSE [raised |-> FALSE, raised_at |-> "",
              proformas |-> linked.proformas,
              bin |-> update_reserved_qty(P1, name),
              sres |-> IF doc.reserve_stock THEN reserved.sres ELSE sres,
              items |-> IF doc.reserve_stock THEN reserved.items ELSE items,
              linked_docs |-> linked.linked_docs]

\* The document is submitted: on_submit runs on the document being saved.
Call_on_submit ==
    /\ call.phase = "idle"
    /\ \E name \in DOMAIN proformas, credit_limit_ok \in BOOLEAN, authorized \in BOOLEAN :
          LET out == on_submit(name, credit_limit_ok, authorized)
          IN  /\ \A n \in DOMAIN proformas : proformas[n].modified < MaxModified
              /\ proformas' = out.proformas
              /\ bin' = out.bin
              /\ sres' = out.sres
              /\ items' = out.items
              /\ linked_docs' = out.linked_docs
              /\ call' = [phase |-> "done", fn |-> "on_submit", name |-> name,
                          session |-> "", status |-> "",
                          raised |-> out.raised, raised_at |-> out.raised_at]
    /\ UNCHANGED <<selling_settings, quotations, stock_settings, packed_items,
                   purchase_orders, sales_invoices, sessions>>

\* The names a draft Proforma may carry as its inter-company reference.
LinkReferences == {"", "PO-IC-1", "PF-2"}

DraftProforma ==
    [SubmittedProforma EXCEPT !.docstatus = 0, !.status = "Draft"]

InitLink ==
    /\ stock_settings = [enable_stock_reservation |-> TRUE,
                         allow_partial_reservation |-> TRUE]
    /\ selling_settings = DefaultSellingSettings
    /\ quotations = <<>>
    /\ \E reference \in LinkReferences, reserve_stock \in BOOLEAN :
          proformas =
             [n \in {"PF-1", "PF-2"} |->
                 IF n = "PF-1"
                 THEN [DraftProforma EXCEPT
                          !.inter_company_order_reference = reference,
                          !.reserve_stock = reserve_stock]
                 ELSE DraftProforma]
    /\ items = <<[Row("ITEM-A", "WH-1", 2, 1, 0, 0, TRUE) EXCEPT !.name = 1]>>
    /\ packed_items = <<>>
    /\ linked_docs = <<[doctype |-> "Purchase Order", name |-> "PO-IC-1",
                        inter_company_order_reference |-> ""]>>
    /\ bin = [b \in {<<"ITEM-A", "WH-1">>} |-> [actual_qty |-> 3, reserved_qty |-> 0]]
    /\ sres = <<>>
    /\ purchase_orders = <<>>
    /\ sales_invoices = <<>>
    /\ sessions = <<>>
    /\ call = Idle

NextLink ==
    \/ Call_on_submit
    \/ Call_on_cancel
    \/ Return

SpecLink == InitLink /\ [][NextLink]_vars

\* The documents whose reference field names the Proforma.
HoldersOfReferenceTo(P, L, name) ==
    {<<"Proforma", n>> : n \in {m \in DOMAIN P : P[m].inter_company_order_reference = name}}
    \cup {<<L[k].doctype, L[k].name>> :
             k \in {j \in DOMAIN L : L[j].inter_company_order_reference = name}}

\* C17: for a Proforma P with an inter_company_order_reference, after
\* on_submit followed by on_cancel no document holds an
\* inter_company_order_reference pointing to P (every record written on
\* submit is cleared on cancel) and P's own reference field is empty.
C17_LinkageUndoneByCancel ==
    [][(/\ CancelStep
        /\ ~call'.raised
        /\ proformas[call'.name].inter_company_order_reference # "")
       => /\ HoldersOfReferenceTo(proformas', linked_docs', call'.name) = {}
          /\ proformas'[call'.name].inter_company_order_reference = ""]_vars

====
